---- MODULE Spec2Model ----
(***************************************************************************)
(* GitHubRepoScraper (github_scraper.py): the listing loop, the README and *)
(* language enrichment, the categorisation heuristic and the CSV writer.   *)
(*                                                                         *)
(* A Python str is modelled as a sequence of one-character strings, so     *)
(* that re.sub, str.strip, slicing, str.lower, str.join and the in       *)
(* substring test are computed and not assumed.                            *)
(***************************************************************************)
EXTENDS Integers, Sequences, FiniteSets, TLC

(***************************************************************************)
(* Program constants.                                                      *)
(***************************************************************************)
\* per_page = 100 (get_all_repositories)
per_page == 100

\* the slice bound of readme_clean.strip()[:500]
ReadmeLimit == 500

(***************************************************************************)
(* Bounds of the model.                                                    *)
(***************************************************************************)
\* size of the short last page of the user's repository list
ShortPage == 37

\* number of full pages the user's repository list may have
FullPages == 2

\* users with at most this many repositories get every possible answer to
\* every enrichment request; larger users answer by a fixed profile
MaxFree == 2

\* README texts for readme cleaning: every text over Alphabet up to this length
MaxText == 3

(***************************************************************************)
(* Strings.                                                                *)
(***************************************************************************)
UpperChars == <<"A","B","C","D","E","F","G","H","I","J","K","L","M","N","O","P","Q","R","S","T","U","V","W","X","Y","Z">>

LowerChars == <<"a","b","c","d","e","f","g","h","i","j","k","l","m","n","o","p","q","r","s","t","u","v","w","x","y","z">>

\* the element of a one-element set; Only({e(x) : x \in {v}}) is e(v) with v
\* worked out a single time
Only(S) == CHOOSE x \in S : TRUE

\* str.lower() of one character
LowerChar(c) ==
    IF \E k \in 1..Len(UpperChars) : UpperChars[k] = c
    THEN LowerChars[CHOOSE k \in 1..Len(UpperChars) : UpperChars[k] = c]
    ELSE c

\* str.lower()
lower(s) == [k \in 1..Len(s) |-> LowerChar(s[k])]

\* needle in hay, of two Python strings
Contains(hay, needle) ==
    \E k \in 0..(Len(hay) - Len(needle)) :
        \A j \in 1..Len(needle) : hay[k + j] = needle[j]

\* sep.join(parts)
RECURSIVE join(_, _)
join(sep, parts) ==
    IF Len(parts) = 0 THEN << >>
    ELSE IF Len(parts) = 1 THEN parts[1]
    ELSE parts[1] \o sep \o join(sep, Tail(parts))

\* s[:n]
Slice(s, n) == SubSeq(s, 1, IF Len(s) < n THEN Len(s) ELSE n)

\* the characters str.strip() removes
Whitespace == {" ", "\t", "\n", "\r"}

\* str.strip()
strip(s) ==
    LET solid == {k \in 1..Len(s) : s[k] \notin Whitespace}
    IN  IF solid = {} THEN << >>
        ELSE SubSeq(s, CHOOSE a \in solid : \A b \in solid : a <= b,
                       CHOOSE a \in solid : \A b \in solid : a >= b)

(***************************************************************************)
(* get_readme_content: the clean-up of the decoded README.                 *)
(***************************************************************************)
\* re.sub(r'\n+', ' ', s): each maximal run of newlines is one match, replaced
\* by one space; every other character is copied
sub_newlines(s) ==
    LET starts == SelectSeq([k \in 1..Len(s) |-> k],
                            LAMBDA k : s[k] # "\n" \/ k = 1 \/ s[k - 1] # "\n")
    IN  [j \in 1..Len(starts) |-> IF s[starts[j]] = "\n" THEN " " ELSE s[starts[j]]]

\* a backquote cannot be written in a TLA+ string: it is the character "<backquote>"
Backquote == "<backquote>"

Markers == {"#", "*", Backquote}

\* re.sub of the markers by ''
sub_markers(s) == SelectSeq(s, LAMBDA c : c \notin Markers)

\* readme_clean, were the text cut to 500 characters before it is stripped
readme_clean_truncfirst(readme_content) ==
    Only({ strip(Slice(readme_clean, ReadmeLimit)) :
           readme_clean \in { sub_markers(sub_newlines(readme_content)) } })

\* lines 81-83: the value returned for a decoded README
readme_clean(readme_content) ==
    Only({ Slice(strip(readme_clean), ReadmeLimit) :
           readme_clean \in { sub_markers(sub_newlines(readme_content)) } })

(***************************************************************************)
(* categorize_repo.                                                        *)
(***************************************************************************)
\* a description (or any optional field) the API reports as null
None == <<"<None>">>

\* x or ''
OrEmpty(x) == IF x = None \/ x = << >> THEN << >> ELSE x

WebLangs == << <<"j","a","v","a","s","c","r","i","p","t">>, <<"t","y","p","e","s","c","r","i","p","t">>, <<"h","t","m","l">>, <<"c","s","s">> >>

MobileLangs == << <<"s","w","i","f","t">>, <<"k","o","t","l","i","n">>, <<"d","a","r","t">> >>

DataKeywords ==
    << <<"d","a","t","a">>, <<"m","a","c","h","i","n","e"," ","l","e","a","r","n","i","n","g">>, <<"m","l">>, <<"a","i">>, <<"a","n","a","l","y","s","i","s">>,
       <<"v","i","s","u","a","l","i","z","a","t","i","o","n">>, <<"p","a","n","d","a","s">>, <<"n","u","m","p","y">> >>

BackendKeywords == << <<"a","p","i">>, <<"b","a","c","k","e","n","d">>, <<"s","e","r","v","e","r">>, <<"d","a","t","a","b","a","s","e">>, <<"m","i","c","r","o","s","e","r","v","i","c","e">> >>

ToolKeywords == << <<"t","o","o","l">>, <<"u","t","i","l","i","t","y">>, <<"s","c","r","i","p","t">>, <<"a","u","t","o","m","a","t","i","o","n">>, <<"c","l","i">> >>

LearningKeywords ==
    << <<"t","u","t","o","r","i","a","l">>, <<"l","e","a","r","n","i","n","g">>, <<"p","r","a","c","t","i","c","e">>, <<"e","x","a","m","p","l","e">>, <<"d","e","m","o">>, <<"c","o","u","r","s","e">> >>

\* any(k in text for k in keywords)
AnyIn(keywords, text) ==
    \E hay \in {text} : \E n \in 1..Len(keywords) : Contains(hay, keywords[n])

\* one if any(...): categories.append(label)
Rule(keywords, text, label) == IF AnyIn(keywords, text) THEN << label >> ELSE << >>

\* categorize_repo, were languages compared without languages.lower()
categorize_repo_cs(repo_data, readme_content, languages) ==
    LET name        == lower(repo_data.name)
        description == lower(OrEmpty(repo_data.description))
        readme_lower == lower(readme_content)
        blob        == name \o <<" ">> \o description \o <<" ">> \o readme_lower
        appended    ==
            Rule(WebLangs, languages, <<"W","e","b"," ","D","e","v","e","l","o","p","m","e","n","t">>)
            \o Rule(MobileLangs, languages, <<"M","o","b","i","l","e"," ","D","e","v","e","l","o","p","m","e","n","t">>)
            \o Rule(DataKeywords, blob, <<"D","a","t","a"," ","S","c","i","e","n","c","e","/","M","L">>)
            \o Rule(BackendKeywords, blob, <<"A","P","I","/","B","a","c","k","e","n","d">>)
            \o Rule(ToolKeywords, blob, <<"T","o","o","l","s","/","U","t","i","l","i","t","i","e","s">>)
            \o Rule(LearningKeywords, blob, <<"L","e","a","r","n","i","n","g","/","T","u","t","o","r","i","a","l">>)
    IN  Only({ IF categories # << >> THEN join(<<";"," ">>, categories) ELSE <<"O","t","h","e","r">> :
               categories \in {appended} })

\* lines 102-139
categorize_repo(repo_data, readme_content, languages) ==
    LET name        == lower(repo_data.name)
        description == lower(OrEmpty(repo_data.description))
        readme_lower == lower(readme_content)
        blob        == name \o <<" ">> \o description \o <<" ">> \o readme_lower
        appended    ==
            Rule(WebLangs, lower(languages), <<"W","e","b"," ","D","e","v","e","l","o","p","m","e","n","t">>)
            \o Rule(MobileLangs, lower(languages), <<"M","o","b","i","l","e"," ","D","e","v","e","l","o","p","m","e","n","t">>)
            \o Rule(DataKeywords, blob, <<"D","a","t","a"," ","S","c","i","e","n","c","e","/","M","L">>)
            \o Rule(BackendKeywords, blob, <<"A","P","I","/","B","a","c","k","e","n","d">>)
            \o Rule(ToolKeywords, blob, <<"T","o","o","l","s","/","U","t","i","l","i","t","i","e","s">>)
            \o Rule(LearningKeywords, blob, <<"L","e","a","r","n","i","n","g","/","T","u","t","o","r","i","a","l">>)
    IN  Only({ IF categories # << >> THEN join(<<";"," ">>, categories) ELSE <<"O","t","h","e","r">> :
               categories \in {appended} })

(***************************************************************************)
(* The GitHub API as the scraper sees it: a user with total repositories *)
(* in update order, whose listing request for page failPage (if any) is  *)
(* answered with a non-200 status.                                         *)
(***************************************************************************)
RepoNames ==
    << <<"m","l","-","t","u","t","o","r","i","a","l","-","d","e","m","o">>, <<"D","o","t","f","i","l","e","s">>, <<"R","E","S","T","-","S","e","r","v","e","r">>, <<"n","o","t","e","s">>, <<"C","L","I","-","H","e","l","p","e","r">> >>

RepoDescriptions ==
    << <<"p","a","n","d","a","s","-","b","a","s","e","d"," ","c","o","u","r","s","e">>, None, <<"E","x","a","m","p","l","e"," ","b","a","c","k","e","n","d">>, << >> >>

Cycle(seq, n) == seq[((n - 1) % Len(seq)) + 1]

\* the n-th repository of the user, most recently updated first; html_url is
\* unique per repository and stands for the columns copied verbatim
Repo(n) == [html_url |-> n, name |-> Cycle(RepoNames, n),
            description |-> Cycle(RepoDescriptions, n)]

Min(a, b) == IF a < b THEN a ELSE b

Max(a, b) == IF a > b THEN a ELSE b

\* GET /users/{username}/repos?page=p&per_page=n
ListResponse(world, p, n) ==
    IF p = world.failPage
    THEN [status_code |-> 403, json |-> << >>]
    ELSE [status_code |-> 200,
          json |-> [k \in 1..Max(0, Min(n, world.total - (p - 1) * n))
                        |-> Repo((p - 1) * n + k)]]

Totals ==
    (0..MaxFree) \cup {f * per_page + s : f \in 0..FullPages, s \in {0, ShortPage}}

\* the first page past the end of a list of n repositories when asked by 100
PastEnd(n) == ((n + per_page - 1) \div per_page) + 1

\* failPage = 0: no listing request fails; a page past PastEnd is never asked
Worlds ==
    {w \in [total : Totals, failPage : 0..(FullPages + 2)] :
        w.failPage <= PastEnd(w.total)}

readme_files == << <<"R","E","A","D","M","E",".","m","d">>, <<"R","E","A","D","M","E",".","r","s","t">>, <<"R","E","A","D","M","E",".","t","x","t">>, <<"R","E","A","D","M","E">> >>

\* decoded README files found in repositories
ReadmeTexts ==
    { <<"#"," ","D","e","m","o","\n","\n","\n","A"," ","*","*","s","m","a","l","l","*","*"," ","<backquote>","A","P","I","<backquote>"," ","s","e","r","v","e","r","\n">>,
      <<"#"," ","N","o"," ","R","E","A","D","M","E"," ","f","o","u","n","d","\n">>,
      <<"\n"," "," ","p","l","a","i","n"," ","t","e","x","t"," "," ","\n">> }

\* answers to GET /repos/{username}/{repo}/contents/{file}: not found, found
\* with another encoding, found but base64/UTF-8 decoding raises, found
NotFound == [status_code |-> 404, encoding |-> "", decodes |-> FALSE, text |-> << >>]

NotBase64 == [status_code |-> 200, encoding |-> "none", decodes |-> FALSE, text |-> << >>]

Undecodable == [status_code |-> 200, encoding |-> "base64", decodes |-> FALSE, text |-> << >>]

Found(t) == [status_code |-> 200, encoding |-> "base64", decodes |-> TRUE, text |-> t]

ReadmeAnswers == {NotFound, NotBase64, Undecodable} \cup {Found(t) : t \in ReadmeTexts}

\* answers to GET /repos/{username}/{repo}/languages
LanguageAnswers ==
    { [status_code |-> 404, json |-> << >>],
      [status_code |-> 200, json |-> << >>],
      [status_code |-> 200, json |-> << <<"P","y","t","h","o","n">> >>],
      [status_code |-> 200, json |-> << <<"J","a","v","a","S","c","r","i","p","t">>, <<"H","T","M","L">> >>] }

\* the fixed answers of the repositories of a larger user
ReadmeProfile(n, c) ==
    CASE n % 5 = 0 -> NotFound
      [] n % 5 = 1 -> Found(<<"#"," ","D","e","m","o","\n","\n","\n","A"," ","*","*","s","m","a","l","l","*","*"," ","<backquote>","A","P","I","<backquote>"," ","s","e","r","v","e","r","\n">>)
      [] n % 5 = 2 -> IF c = 1 THEN NotFound
                      ELSE IF c = 2 THEN Undecodable
                      ELSE Found(<<"\n"," "," ","p","l","a","i","n"," ","t","e","x","t"," "," ","\n">>)
      [] n % 5 = 3 -> IF c = 1 THEN NotBase64
                      ELSE IF c < 4 THEN NotFound
                      ELSE Found(<<"#"," ","N","o"," ","R","E","A","D","M","E"," ","f","o","u","n","d","\n">>)
      [] OTHER     -> Undecodable

LanguageProfile(n) ==
    CASE n % 4 = 0 -> [status_code |-> 404, json |-> << >>]
      [] n % 4 = 1 -> [status_code |-> 200, json |-> << <<"P","y","t","h","o","n">> >>]
      [] n % 4 = 2 -> [status_code |-> 200, json |-> << >>]
      [] OTHER     -> [status_code |-> 200, json |-> << <<"J","a","v","a","S","c","r","i","p","t">>, <<"H","T","M","L">> >>]

ReadmeResponses(world, n, c) ==
    IF world.total <= MaxFree THEN ReadmeAnswers ELSE {ReadmeProfile(n, c)}

LanguageResponses(world, n) ==
    IF world.total <= MaxFree THEN LanguageAnswers ELSE {LanguageProfile(n)}

(***************************************************************************)
(* State.                                                                  *)
(***************************************************************************)
VARIABLES
    api,             \* the user on the API side (never changes)
    pc,              \* where scrape_to_csv is
    page,            \* get_all_repositories: page
    repos,           \* get_all_repositories: repos, then scrape_to_csv: repos
    pageLog,         \* the listing requests issued so far: <<page, per_page>>
    i,               \* scrape_to_csv: i of enumerate(repos, 1)
    cand,            \* get_readme_content: index of readme_file in readme_files
    events,          \* the requests and sleeps of the get_readme_content call
                     \* under way or just returned
    readme_content,  \* scrape_to_csv: readme_content
    languages_used,  \* scrape_to_csv: languages_used
    langLog,         \* the language requests issued so far: html_url asked about
    response,        \* get_languages: response
    csv,             \* the output file: "absent", "open" or "closed"
    rows,            \* the data rows of the output file
    arg,             \* argument of a function applied on its own
    ret              \* its result

vars == << api, pc, page, repos, pageLog, i, cand, events, readme_content,
           languages_used, langLog, response, csv, rows, arg, ret >>

NoReadme == <<"N","o"," ","R","E","A","D","M","E"," ","f","o","u","n","d">>

NotSpecified == <<"N","o","t"," ","s","p","e","c","i","f","i","e","d">>

Unset == << >>

Init ==
    /\ api \in Worlds
    /\ pc = "list"
    /\ page = 1
    /\ repos = << >>
    /\ pageLog = << >>
    /\ i = 0
    /\ cand = 0
    /\ events = << >>
    /\ readme_content = Unset
    /\ languages_used = Unset
    /\ langLog = << >>
    /\ response = [status_code |-> 0, json |-> << >>]
    /\ csv = "absent"
    /\ rows = << >>
    /\ arg = << >>
    /\ ret = << >>

(***************************************************************************)
(* get_all_repositories: one iteration of while True (lines 38-63); the    *)
(* sleep that ends it changes nothing.  On break the list is returned.     *)
(***************************************************************************)
\* get_all_repositories, were a page shorter than per_page to end the loop
get_all_repositories_shortstop ==
    /\ pc = "list"
    /\ LET answer == ListResponse(api, page, per_page)
           page_repos == answer.json
       IN  /\ pageLog' = Append(pageLog, << page, per_page >>)
           /\ IF answer.status_code # 200
              THEN /\ pc' = "listed"
                   /\ UNCHANGED << repos, page >>
              ELSE /\ repos' = repos \o page_repos
                   /\ page' = page + 1
                   /\ pc' = IF Len(page_repos) < per_page THEN "listed" ELSE "list"
    /\ UNCHANGED << api, i, cand, events, readme_content, languages_used,
                    langLog, response, csv, rows, arg, ret >>

\* get_all_repositories, were a non-200 answer to discard what was fetched
get_all_repositories_discard ==
    /\ pc = "list"
    /\ LET answer == ListResponse(api, page, per_page)
           page_repos == answer.json
       IN  /\ pageLog' = Append(pageLog, << page, per_page >>)
           /\ IF answer.status_code # 200
              THEN /\ pc' = "listed"
                   /\ repos' = << >>
                   /\ UNCHANGED page
              ELSE IF page_repos = << >>
              THEN /\ pc' = "listed"
                   /\ UNCHANGED << repos, page >>
              ELSE /\ repos' = repos \o page_repos
                   /\ page' = page + 1
                   /\ pc' = "list"
    /\ UNCHANGED << api, i, cand, events, readme_content, languages_used,
                    langLog, response, csv, rows, arg, ret >>

get_all_repositories ==
    /\ pc = "list"
    /\ LET answer == ListResponse(api, page, per_page)
           page_repos == answer.json
       IN  /\ pageLog' = Append(pageLog, << page, per_page >>)
           /\ IF answer.status_code # 200
              THEN /\ pc' = "listed"
                   /\ UNCHANGED << repos, page >>
              ELSE IF page_repos = << >>
              THEN /\ pc' = "listed"
                   /\ UNCHANGED << repos, page >>
              ELSE /\ repos' = repos \o page_repos
                   /\ page' = page + 1
                   /\ pc' = "list"
    /\ UNCHANGED << api, i, cand, events, readme_content, languages_used,
                    langLog, response, csv, rows, arg, ret >>

(***************************************************************************)
(* scrape_to_csv, lines 144-165: the list is back; return if it is empty,  *)
(* else open the file, write the header and enter the loop.                *)
(***************************************************************************)
scrape_to_csv_open ==
    /\ pc = "listed"
    /\ IF repos = << >>
       THEN /\ pc' = "done"
            /\ UNCHANGED << csv, i, cand >>
       ELSE /\ csv' = "open"
            /\ i' = 1
            /\ cand' = 1
            /\ pc' = "readme"
    /\ UNCHANGED << api, page, repos, pageLog, events, readme_content,
                    languages_used, langLog, response, rows, arg, ret >>

(***************************************************************************)
(* get_readme_content: one iteration of the for loop (lines 71-87).        *)
(***************************************************************************)
\* requests.get(url) of a candidate and its response; time.sleep(0.1)
Get(readme_file, answer) == [op |-> "get", file |-> readme_file, response |-> answer]

Sleep == [op |-> "sleep", file |-> << >>, response |-> NotFound]

\* line 75 and line 77: the response is worth decoding
Decodable(answer) == answer.status_code = 200 /\ answer.encoding = "base64"

\* get_readme_content, were a decodable README not to end the loop
get_readme_content_nostop ==
    /\ pc = "readme"
    /\ cand <= Len(readme_files)
    /\ \E answer \in ReadmeResponses(api, repos[i].html_url, cand) :
          LET request == Get(readme_files[cand], answer)
          IN  IF Decodable(answer)
              THEN IF answer.decodes
                   THEN /\ events' = Append(events, request)
                        /\ readme_content' = readme_clean(answer.text)
                        /\ cand' = cand + 1
                        /\ UNCHANGED pc
                   ELSE /\ events' = Append(events, request)
                        /\ cand' = cand + 1
                        /\ UNCHANGED << readme_content, pc >>
              ELSE /\ events' = events \o << request, Sleep >>
                   /\ cand' = cand + 1
                   /\ UNCHANGED << readme_content, pc >>
    /\ UNCHANGED << api, page, repos, pageLog, i, languages_used, langLog, response,
                    csv, rows, arg, ret >>

\* get_readme_content, were the decoding error not caught: the exception ends the run
get_readme_content_raise ==
    /\ pc = "readme"
    /\ cand <= Len(readme_files)
    /\ \E answer \in ReadmeResponses(api, repos[i].html_url, cand) :
          LET request == Get(readme_files[cand], answer)
          IN  IF Decodable(answer)
              THEN IF answer.decodes
                   THEN /\ events' = Append(events, request)
                        /\ readme_content' = readme_clean(answer.text)
                        /\ pc' = "languages"
                        /\ UNCHANGED cand
                   ELSE /\ events' = Append(events, request)
                        /\ pc' = "raised"
                        /\ UNCHANGED << readme_content, cand >>
              ELSE /\ events' = events \o << request, Sleep >>
                   /\ cand' = cand + 1
                   /\ UNCHANGED << readme_content, pc >>
    /\ UNCHANGED << api, page, repos, pageLog, i, languages_used, langLog, response,
                    csv, rows, arg, ret >>


get_readme_content ==
    /\ pc = "readme"
    /\ cand <= Len(readme_files)
    /\ \E answer \in ReadmeResponses(api, repos[i].html_url, cand) :
          LET request == Get(readme_files[cand], answer)
          IN  IF Decodable(answer)
              THEN IF answer.decodes
                   THEN \* line 83: return
                        /\ events' = Append(events, request)
                        /\ readme_content' = readme_clean(answer.text)
                        /\ pc' = "languages"
                        /\ UNCHANGED cand
                   ELSE \* line 85: except: continue
                        /\ events' = Append(events, request)
                        /\ cand' = cand + 1
                        /\ UNCHANGED << readme_content, pc >>
              ELSE \* line 87: fall through to the sleep
                   /\ events' = events \o << request, Sleep >>
                   /\ cand' = cand + 1
                   /\ UNCHANGED << readme_content, pc >>
    /\ UNCHANGED << api, page, repos, pageLog, i, languages_used, langLog, response,
                    csv, rows, arg, ret >>

\* line 89: the loop ran out of candidates
\* get_readme_content_exhausted, were the loop to fall off its end with an empty string
get_readme_content_exhausted_empty ==
    /\ pc = "readme"
    /\ cand > Len(readme_files)
    /\ readme_content' = << >>
    /\ pc' = "languages"
    /\ UNCHANGED << api, page, repos, pageLog, i, cand, events, languages_used,
                    langLog, response, csv, rows, arg, ret >>

get_readme_content_exhausted ==
    /\ pc = "readme"
    /\ cand > Len(readme_files)
    /\ readme_content' = NoReadme
    /\ pc' = "languages"
    /\ UNCHANGED << api, page, repos, pageLog, i, cand, events, languages_used,
                    langLog, response, csv, rows, arg, ret >>

(***************************************************************************)
(* get_languages (lines 91-100).                                           *)
(***************************************************************************)
\* languages_of, were an empty mapping joined like any other
languages_of_nodefault(answer) ==
    IF answer.status_code = 200 THEN join(<<","," ">>, answer.json) ELSE NotSpecified

\* lines 96-100: the value returned for a response
languages_of(answer) ==
    IF answer.status_code = 200
    THEN IF answer.json # << >> THEN join(<<","," ">>, answer.json) ELSE NotSpecified
    ELSE NotSpecified

get_languages ==
    /\ pc = "languages"
    /\ \E answer \in LanguageResponses(api, repos[i].html_url) :
          /\ langLog' = Append(langLog, repos[i].html_url)
          /\ response' = answer
          /\ languages_used' = languages_of(answer)
    /\ events' = << >>
    /\ pc' = "row"
    /\ UNCHANGED << api, page, repos, pageLog, i, cand, readme_content,
                    csv, rows, arg, ret >>

(***************************************************************************)
(* scrape_to_csv, lines 172-208: categorise, write the row, sleep, and go  *)
(* on to the next repository or close the file.                            *)
(***************************************************************************)
\* lines 176-203, the columns that are not verbatim copies
row_data(repo, readme, languages, category) ==
    [url |-> repo.html_url, name |-> repo.name,
     description |-> OrEmpty(repo.description), readme_content |-> readme,
     languages_used |-> languages, category |-> category]

\* scrape_to_csv_row, were a repository without README to get no row
scrape_to_csv_row_skip ==
    /\ pc = "row"
    /\ LET repo == repos[i]
           category == categorize_repo(repo, readme_content, languages_used)
       IN  rows' = IF readme_content = NoReadme THEN rows
                   ELSE Append(rows, row_data(repo, readme_content, languages_used, category))
    /\ IF i < Len(repos)
       THEN /\ i' = i + 1
            /\ cand' = 1
            /\ events' = << >>
            /\ pc' = "readme"
            /\ UNCHANGED csv
       ELSE /\ csv' = "closed"
            /\ pc' = "done"
            /\ UNCHANGED << i, cand, events >>
    /\ UNCHANGED << api, page, repos, pageLog, readme_content, languages_used,
                    langLog, response, arg, ret >>

scrape_to_csv_row ==
    /\ pc = "row"
    /\ LET repo == repos[i]
           category == categorize_repo(repo, readme_content, languages_used)
       IN  rows' = Append(rows, row_data(repo, readme_content, languages_used, category))
    /\ IF i < Len(repos)
       THEN /\ i' = i + 1
            /\ cand' = 1
            /\ events' = << >>
            /\ pc' = "readme"
            /\ UNCHANGED csv
       ELSE /\ csv' = "closed"
            /\ pc' = "done"
            /\ UNCHANGED << i, cand, events >>
    /\ UNCHANGED << api, page, repos, pageLog, readme_content, languages_used,
                    langLog, response, arg, ret >>

Next ==
    \/ get_all_repositories
    \/ scrape_to_csv_open
    \/ get_readme_content
    \/ get_readme_content_exhausted
    \/ get_languages
    \/ scrape_to_csv_row

Spec == Init /\ [][Next]_vars

\* the script is sequential and every call returns: a step that can be taken is taken
FairSpec == Spec /\ WF_vars(Next)

(***************************************************************************)
(* readme_clean applied on its own to decoded README texts: every text     *)
(* over Alphabet up to MaxText characters, and texts around ReadmeLimit.   *)
(***************************************************************************)
Alphabet == {"a", " ", "\t", "\n", "#", "*", Backquote}

Texts(n) == UNION {[1..m -> Alphabet] : m \in 0..n}

Fill(n) == [k \in 1..n |-> "x"]

LongTexts ==
    {pre \o Fill(n) \o suf :
        pre \in Texts(1), suf \in Texts(1),
        n \in (ReadmeLimit - 2)..(ReadmeLimit + 1)}

CleanInputs == Texts(MaxText) \cup LongTexts

InitClean ==
    /\ arg \in CleanInputs
    /\ pc = "clean"
    /\ ret = << >>
    /\ api = [total |-> 0, failPage |-> 0]
    /\ page = 1
    /\ repos = << >>
    /\ pageLog = << >>
    /\ i = 0
    /\ cand = 0
    /\ events = << >>
    /\ readme_content = Unset
    /\ languages_used = Unset
    /\ langLog = << >>
    /\ response = [status_code |-> 0, json |-> << >>]
    /\ csv = "absent"
    /\ rows = << >>

CleanReadme ==
    /\ pc = "clean"
    /\ ret' = readme_clean(arg)
    /\ pc' = "cleaned"
    /\ UNCHANGED << api, page, repos, pageLog, i, cand, events, readme_content,
                    languages_used, langLog, response, csv, rows, arg >>

SpecClean == InitClean /\ [][CleanReadme]_vars

(***************************************************************************)
(* categorize_repo applied on its own.                                     *)
(***************************************************************************)
CatNames ==
    { <<"m","l","-","t","u","t","o","r","i","a","l","-","d","e","m","o">>, <<"M","L","-","T","u","t","o","r","i","a","l","-","D","e","m","o">>, <<"d","o","t","f","i","l","e","s">>, <<"m","a","c","h","i","n","e">>,
      <<"M","y","-","T","o","o","l">>, <<"d","a">> }

CatDescriptions ==
    { <<"p","a","n","d","a","s","-","b","a","s","e","d"," ","c","o","u","r","s","e">>, None, << >>, <<"L","e","a","r","n","i","n","g"," ","K","o","t","l","i","n">>, <<"t","a">>,
      <<"R","E","S","T"," ","A","P","I"," ","S","e","r","v","e","r">> }

CatReadmes == { <<"N","o"," ","R","E","A","D","M","E"," ","f","o","u","n","d">>, << >>, <<"A"," ","C","L","I"," ","S","c","r","i","p","t"," ","f","o","r"," ","D","a","t","a">> }

CatLanguages ==
    { <<"P","y","t","h","o","n">>, <<"N","o","t"," ","s","p","e","c","i","f","i","e","d">>, <<"J","a","v","a","S","c","r","i","p","t",","," ","H","T","M","L">>, <<"S","w","i","f","t",","," ","D","a","r","t">>, <<"C","S","S">> }

InitCategorize ==
    /\ arg \in [name : CatNames, description : CatDescriptions,
                readme_content : CatReadmes, languages : CatLanguages]
    /\ pc = "categorize"
    /\ ret = << >>
    /\ api = [total |-> 0, failPage |-> 0]
    /\ page = 1
    /\ repos = << >>
    /\ pageLog = << >>
    /\ i = 0
    /\ cand = 0
    /\ events = << >>
    /\ readme_content = Unset
    /\ languages_used = Unset
    /\ langLog = << >>
    /\ response = [status_code |-> 0, json |-> << >>]
    /\ csv = "absent"
    /\ rows = << >>

Categorize ==
    /\ pc = "categorize"
    /\ ret' = categorize_repo([name |-> arg.name, description |-> arg.description],
                              arg.readme_content, arg.languages)
    /\ pc' = "categorized"
    /\ UNCHANGED << api, page, repos, pageLog, i, cand, events, readme_content,
                    languages_used, langLog, response, csv, rows, arg >>

SpecCategorize == InitCategorize /\ [][Categorize]_vars

(***************************************************************************)
(* Properties.                                                             *)
(***************************************************************************)
\* the requests of the current get_readme_content call, in order
Gets == SelectSeq(events, LAMBDA e : e.op = "get")

\* a candidate succeeds: success status, base64 encoding, content that decodes
Succeeded(e) ==
    e.response.status_code = 200 /\ e.response.encoding = "base64" /\ e.response.decodes

NoneSucceeded == \A k \in 1..Len(Gets) : ~Succeeded(Gets[k])

\* get_readme_content has returned for the current repository
ReadmeReturned == pc = "languages"

\* the page sizes [100, 100, 37], every page served successfully
Pages100_100_37 == api = [total |-> 237, failPage |-> 0]

\* the answer the API gives to the k-th listing request
Answer(k) == ListResponse(api, k, 100)

\* the first `n` data rows are the rows of the first n listed repositories
RowsOfFirst(n) ==
    /\ n = Len(rows)
    /\ n <= Len(repos)
    /\ \A k \in 1..n : rows[k].url = repos[k].html_url /\ rows[k].name = repos[k].name

\* C1: in scrape_to_csv the data rows written so far are at every point the
\* rows of the first k listed repositories in listing order, a written row is
\* never changed, removed or reordered, and when the run completes k = N: one
\* row per listed repository.
C1_RowsFollowListing ==
    /\ [](RowsOfFirst(Len(rows)) /\ (pc = "done" => Len(rows) = Len(repos)))
    /\ [][Len(rows') >= Len(rows) /\ SubSeq(rows', 1, Len(rows)) = rows]_vars

C1_Witness ==
    /\ pc = "done"
    /\ Len(repos) = 237
    /\ Len(rows) = 237
    /\ rows[237].url = 237
    /\ \E k \in 1..Len(rows) : rows[k].readme_content = <<"N","o"," ","R","E","A","D","M","E"," ","f","o","u","n","d">>

\* C2 as stated: pages of sizes [100, 100, 37] give 237 repositories after
\* three requests and no fourth; requests go by ascending page index from 1
\* with page size 100, and a page shorter than the page size is the last page
\* requested.
C2_ShortPageIsLast ==
    /\ \A k \in 1..Len(pageLog) : pageLog[k] = << k, 100 >>
    /\ pc # "list" =>
          /\ Pages100_100_37 => Len(repos) = 237 /\ Len(pageLog) = 3
          /\ \A k \in 1..Len(pageLog) :
                (Answer(k).status_code = 200 /\ Len(Answer(k).json) < 100)
                    => k = Len(pageLog)

\* C2 amended: pages of sizes [100, 100, 37] give 237 repositories after four
\* requests, the fourth answered by an empty page; requests go by ascending
\* page index from 1 with page size 100, and the last page requested is the
\* first one that is empty or answered with a non-success status, so a
\* non-empty page shorter than the page size is followed by another request.
C2_StopsAtEmptyPage ==
    /\ \A k \in 1..Len(pageLog) : pageLog[k] = << k, 100 >>
    /\ pc # "list" =>
          /\ Pages100_100_37 => Len(repos) = 237 /\ Len(pageLog) = 4
          /\ Len(pageLog) >= 1
          /\ \A k \in 1..Len(pageLog) :
                (Answer(k).status_code # 200 \/ Answer(k).json = << >>)
                    <=> k = Len(pageLog)

C2_Witness ==
    /\ pc = "listed"
    /\ Pages100_100_37
    /\ Len(repos) = 237
    /\ Len(pageLog) = 4
    /\ Len(Answer(3).json) = 37
    /\ Answer(4).json = << >>

\* the repositories of the pages 1..k, concatenated in order
RECURSIVE PagesUpTo(_)
PagesUpTo(k) == IF k = 0 THEN << >> ELSE PagesUpTo(k - 1) \o Answer(k).json

\* the failing listing request has been issued
ListingFailed == api.failPage >= 1 /\ Len(pageLog) >= api.failPage

\* C3: if the request for page k is answered with a non-success status after
\* the pages 1..k-1 came back non-empty, no further page is requested and the
\* collection returned is the concatenation in order of the pages 1..k-1; that
\* partial collection is what scrape_to_csv enriches and writes.
C3_PartialListKept ==
    ListingFailed =>
        /\ pc # "list"
        /\ Len(pageLog) = api.failPage
        /\ repos = PagesUpTo(api.failPage - 1)
        /\ RowsOfFirst(Len(rows))
        /\ pc = "done" => Len(rows) = Len(PagesUpTo(api.failPage - 1))

C3_Witness ==
    /\ ListingFailed
    /\ api.failPage = 3
    /\ pc = "done"
    /\ Len(repos) = 200
    /\ Len(rows) = 200
    /\ rows[200].url = 200

\* C4: the candidates are requested in the order README.md, README.rst,
\* README.txt, README; a candidate is requested only if every earlier one
\* failed, and the first one that succeeds ends the call, whose result is that
\* candidate's cleaned text.
C4_FirstSuccessWins ==
    /\ Len(Gets) <= 4
    /\ \A k \in 1..Len(Gets) :
          /\ Gets[k].file = << <<"R","E","A","D","M","E",".","m","d">>, <<"R","E","A","D","M","E",".","r","s","t">>, <<"R","E","A","D","M","E",".","t","x","t">>, <<"R","E","A","D","M","E">> >>[k]
          /\ \A j \in 1..(k - 1) : ~Succeeded(Gets[j])
          /\ Succeeded(Gets[k]) =>
                /\ ReadmeReturned
                /\ readme_content = readme_clean(Gets[k].response.text)

C4_Witness ==
    /\ pc = "languages"
    /\ Len(Gets) = 3
    /\ Gets[1].response.status_code = 404
    /\ Gets[2].response.encoding = "base64" /\ ~Gets[2].response.decodes
    /\ Succeeded(Gets[3])
    /\ readme_content = <<"D","e","m","o"," ","A"," ","s","m","a","l","l"," ","A","P","I"," ","s","e","r","v","e","r">>

\* C5 as stated: get_readme_content returns exactly "No README found" if and
\* only if none of the four candidates succeeds (a decoding failure counts as
\* a failed candidate), and then all four were requested exactly once each.
C5_SentinelIffNoneSucceeded ==
    ReadmeReturned =>
        /\ (readme_content = <<"N","o"," ","R","E","A","D","M","E"," ","f","o","u","n","d">>) <=> NoneSucceeded
        /\ NoneSucceeded =>
              [k \in 1..Len(Gets) |-> Gets[k].file]
                  = << <<"R","E","A","D","M","E",".","m","d">>, <<"R","E","A","D","M","E",".","r","s","t">>, <<"R","E","A","D","M","E",".","t","x","t">>, <<"R","E","A","D","M","E">> >>

\* C5 amended: if none of the four candidates succeeds (a decoding failure
\* counts as a failed candidate and the next one is tried), the result is
\* exactly "No README found" and all four were requested exactly once each;
\* the result is that string only then, or when the cleaned text of the
\* candidate that succeeded is itself "No README found".
C5_SentinelWhenNoneSucceeded ==
    ReadmeReturned =>
        /\ NoneSucceeded =>
              /\ readme_content = <<"N","o"," ","R","E","A","D","M","E"," ","f","o","u","n","d">>
              /\ [k \in 1..Len(Gets) |-> Gets[k].file]
                    = << <<"R","E","A","D","M","E",".","m","d">>, <<"R","E","A","D","M","E",".","r","s","t">>, <<"R","E","A","D","M","E",".","t","x","t">>, <<"R","E","A","D","M","E">> >>
        /\ (readme_content = <<"N","o"," ","R","E","A","D","M","E"," ","f","o","u","n","d">>) <=>
              \/ NoneSucceeded
              \/ \E k \in 1..Len(Gets) :
                    /\ Succeeded(Gets[k])
                    /\ readme_clean(Gets[k].response.text) = <<"N","o"," ","R","E","A","D","M","E"," ","f","o","u","n","d">>

C5_Witness ==
    /\ pc = "languages"
    /\ NoneSucceeded
    /\ Len(Gets) = 4
    /\ \E k \in 1..4 : Gets[k].response.encoding = "base64" /\ ~Gets[k].response.decodes
    /\ readme_content = <<"N","o"," ","R","E","A","D","M","E"," ","f","o","u","n","d">>

\* the length of the first k names joined by a two-character separator,
\* separator after the k-th included
RECURSIVE JoinedLength(_, _)
JoinedLength(names, k) ==
    IF k = 0 THEN 0 ELSE JoinedLength(names, k - 1) + Len(names[k]) + 2

\* text is the names in order, each followed by ", " except the last
IsCommaJoined(text, names) ==
    /\ Len(text) = JoinedLength(names, Len(names)) - 2
    /\ \A k \in 1..Len(names) :
          LET from == JoinedLength(names, k - 1)
          IN  /\ SubSeq(text, from + 1, from + Len(names[k])) = names[k]
              /\ k < Len(names) =>
                    SubSeq(text, from + Len(names[k]) + 1, from + Len(names[k]) + 2) = <<","," ">>

\* get_languages has returned for the current repository
LanguagesReturned == pc = "row" \/ (pc = "done" /\ repos # << >>)

\* C6: get_languages returns exactly "Not specified" when the request fails or
\* succeeds with an empty mapping, and otherwise the language names joined by
\* ", " in the order of the response; it issues exactly one request per
\* repository and never retries.
C6_LanguagesOrSentinel ==
    /\ Len(langLog) = (IF LanguagesReturned THEN i ELSE Max(0, i - 1))
    /\ \A k \in 1..Len(langLog) : langLog[k] = repos[k].html_url
    /\ LanguagesReturned =>
          IF response.status_code # 200 \/ response.json = << >>
          THEN languages_used = <<"N","o","t"," ","s","p","e","c","i","f","i","e","d">>
          ELSE IsCommaJoined(languages_used, response.json)

C6_Witness ==
    /\ pc = "row"
    /\ i = 2
    /\ rows[1].languages_used = <<"N","o","t"," ","s","p","e","c","i","f","i","e","d">>
    /\ langLog = << 1, 2 >>
    /\ response.json = << <<"J","a","v","a","S","c","r","i","p","t">>, <<"H","T","M","L">> >>
    /\ languages_used = <<"J","a","v","a","S","c","r","i","p","t",","," ","H","T","M","L">>

\* every run of newlines of s replaced by a single space: the two halves of s
\* done apart, less the space of a run that straddles the cut
RECURSIVE NewlineRunsToSpace(_)
NewlineRunsToSpace(s) ==
    IF Len(s) = 0 THEN << >>
    ELSE IF Len(s) = 1 THEN (IF s[1] = "\n" THEN << " " >> ELSE s)
    ELSE LET half  == Len(s) \div 2
             left  == NewlineRunsToSpace(SubSeq(s, 1, half))
             right == NewlineRunsToSpace(SubSeq(s, half + 1, Len(s)))
         IN  IF s[half] = "\n" /\ s[half + 1] = "\n"
             THEN left \o Tail(right)
             ELSE left \o right

\* s without its marker characters
WithoutMarkers(s) == SelectSeq(s, LAMBDA c : c \notin {"#", "*", Backquote})

\* s without its leading and trailing whitespace
Trimmed(s) ==
    LET blank(c) == c \in {" ", "\t", "\n", "\r"}
        leading  == Cardinality({k \in 1..Len(s) : \A j \in 1..k : blank(s[j])})
        trailing == Cardinality({k \in 1..Len(s) : \A j \in 0..(Len(s) - k) : blank(s[Len(s) - j])})
    IN  IF leading = Len(s) THEN << >>
        ELSE SubSeq(s, leading + 1, Len(s) - trailing)

\* C7: the excerpt of a decoded README has at most 500 characters, holds none
\* of the markers #, * and backquote, and is the text with every run of
\* newlines replaced by a single space, the markers removed, then trimmed of
\* leading and trailing whitespace, then cut to 500 characters.
C7_ExcerptCleaned ==
    pc = "cleaned" =>
        /\ Len(ret) <= 500
        /\ \A k \in 1..Len(ret) : ret[k] \notin {"#", "*", Backquote}
        /\ LET trimmed == Trimmed(WithoutMarkers(NewlineRunsToSpace(arg)))
           IN  ret = SubSeq(trimmed, 1, Min(500, Len(trimmed)))

C7_Witness ==
    /\ pc = "cleaned"
    /\ Len(arg) > 500
    /\ arg[1] = "\n"
    /\ arg[Len(arg)] = "#"
    /\ Len(ret) = 500

\* keyword occurs in text, letter case ignored
OccursIn(keyword, text) ==
    \E k \in 1..Len(text) :
        /\ k + Len(keyword) - 1 <= Len(text)
        /\ lower(SubSeq(text, k, k + Len(keyword) - 1)) = lower(keyword)

\* the six rules in their fixed order: label, what is searched, what for
CategoryRules(name, description, readme, languages) ==
    LET text == name \o <<" ">> \o OrEmpty(description) \o <<" ">> \o readme
    IN  << << <<"W","e","b"," ","D","e","v","e","l","o","p","m","e","n","t">>, languages,
              {<<"j","a","v","a","s","c","r","i","p","t">>, <<"t","y","p","e","s","c","r","i","p","t">>, <<"h","t","m","l">>, <<"c","s","s">>} >>,
           << <<"M","o","b","i","l","e"," ","D","e","v","e","l","o","p","m","e","n","t">>, languages, {<<"s","w","i","f","t">>, <<"k","o","t","l","i","n">>, <<"d","a","r","t">>} >>,
           << <<"D","a","t","a"," ","S","c","i","e","n","c","e","/","M","L">>, text,
              {<<"d","a","t","a">>, <<"m","a","c","h","i","n","e"," ","l","e","a","r","n","i","n","g">>, <<"m","l">>, <<"a","i">>, <<"a","n","a","l","y","s","i","s">>,
               <<"v","i","s","u","a","l","i","z","a","t","i","o","n">>, <<"p","a","n","d","a","s">>, <<"n","u","m","p","y">>} >>,
           << <<"A","P","I","/","B","a","c","k","e","n","d">>, text,
              {<<"a","p","i">>, <<"b","a","c","k","e","n","d">>, <<"s","e","r","v","e","r">>, <<"d","a","t","a","b","a","s","e">>, <<"m","i","c","r","o","s","e","r","v","i","c","e">>} >>,
           << <<"T","o","o","l","s","/","U","t","i","l","i","t","i","e","s">>, text,
              {<<"t","o","o","l">>, <<"u","t","i","l","i","t","y">>, <<"s","c","r","i","p","t">>, <<"a","u","t","o","m","a","t","i","o","n">>, <<"c","l","i">>} >>,
           << <<"L","e","a","r","n","i","n","g","/","T","u","t","o","r","i","a","l">>, text,
              {<<"t","u","t","o","r","i","a","l">>, <<"l","e","a","r","n","i","n","g">>, <<"p","r","a","c","t","i","c","e">>, <<"e","x","a","m","p","l","e">>, <<"d","e","m","o">>, <<"c","o","u","r","s","e">>} >> >>

\* the labels of the rules that match, in rule order
MatchingLabels(rules) ==
    LET matching == SelectSeq(rules, LAMBDA r : \E keyword \in r[3] : OccursIn(keyword, r[2]))
    IN  [k \in 1..Len(matching) |-> matching[k][1]]

\* text is the labels in order, separated by "; "
RECURSIVE IsSemicolonJoined(_, _)
IsSemicolonJoined(text, labels) ==
    IF Len(labels) = 0 THEN text = << >>
    ELSE IF Len(labels) = 1 THEN text = labels[1]
    ELSE /\ Len(text) >= Len(labels[1]) + 2
         /\ SubSeq(text, 1, Len(labels[1])) = labels[1]
         /\ SubSeq(text, Len(labels[1]) + 1, Len(labels[1]) + 2) = <<";"," ">>
         /\ IsSemicolonJoined(SubSeq(text, Len(labels[1]) + 3, Len(text)), Tail(labels))

\* C8: categorize_repo returns the labels of exactly the rules that match
\* (language rules against the language list, keyword rules against name,
\* description and README excerpt joined by spaces, letter case ignored),
\* joined by "; " in rule order, and "Other" if and only if no rule matches;
\* "ml-tutorial-demo" with description "pandas-based course" and languages
\* Python is "Data Science/ML; Learning/Tutorial".
C8_LabelsOfMatchingRules ==
    pc = "categorized" =>
        LET labels == MatchingLabels(CategoryRules(arg.name, arg.description,
                                                   arg.readme_content, arg.languages))
        IN  /\ (ret = <<"O","t","h","e","r">>) <=> (labels = << >>)
            /\ labels # << >> => IsSemicolonJoined(ret, labels)
            /\ ( /\ arg.name = <<"m","l","-","t","u","t","o","r","i","a","l","-","d","e","m","o">>
                 /\ arg.description = <<"p","a","n","d","a","s","-","b","a","s","e","d"," ","c","o","u","r","s","e">>
                 /\ arg.languages = <<"P","y","t","h","o","n">>
                 /\ arg.readme_content \in {<< >>, <<"N","o"," ","R","E","A","D","M","E"," ","f","o","u","n","d">>} )
               => ret = <<"D","a","t","a"," ","S","c","i","e","n","c","e","/","M","L",";"," ","L","e","a","r","n","i","n","g","/","T","u","t","o","r","i","a","l">>

C8_Witness ==
    /\ pc = "categorized"
    /\ arg.name = <<"m","l","-","t","u","t","o","r","i","a","l","-","d","e","m","o">>
    /\ arg.description = <<"p","a","n","d","a","s","-","b","a","s","e","d"," ","c","o","u","r","s","e">>
    /\ arg.languages = <<"P","y","t","h","o","n">>
    /\ arg.readme_content = <<"N","o"," ","R","E","A","D","M","E"," ","f","o","u","n","d">>
    /\ ret = <<"D","a","t","a"," ","S","c","i","e","n","c","e","/","M","L",";"," ","L","e","a","r","n","i","n","g","/","T","u","t","o","r","i","a","l">>

\* C9: between any two consecutive README candidate requests for a repository
\* the rate-limiting sleep is executed, whatever the outcome of the earlier
\* request.
C9_SleepBetweenCandidates ==
    \A k \in 1..(Len(events) - 1) :
        (events[k].op = "get" /\ ~Succeeded(events[k])) => events[k + 1].op = "sleep"

\* the language request of the current repository failed
LanguagesFailed == response.status_code # 200

\* C10: an enrichment failure never stops the run: whatever fails among the
\* README and language requests of a repository, the failed value is its
\* sentinel, the row of the repository is written with it, the next
\* repository is processed, and the run completes with a row for every listed
\* repository.
C10_FailureNeverStops ==
    /\ []((pc = "languages" /\ NoneSucceeded) => readme_content = <<"N","o"," ","R","E","A","D","M","E"," ","f","o","u","n","d">>)
    /\ []((pc = "row" /\ LanguagesFailed) => languages_used = <<"N","o","t"," ","s","p","e","c","i","f","i","e","d">>)
    /\ [][pc = "row" =>
            /\ rows' = Append(rows, rows'[Len(rows')])
            /\ rows'[Len(rows')].url = repos[i].html_url
            /\ rows'[Len(rows')].readme_content = readme_content
            /\ rows'[Len(rows')].languages_used = languages_used
            /\ IF i < Len(repos) THEN pc' = "readme" /\ i' = i + 1 ELSE pc' = "done"]_vars
    /\ [](pc = "done" => Len(rows) = Len(repos))
    /\ <>(pc = "done")

C10_Witness ==
    /\ pc = "done"
    /\ Len(rows) = 2
    /\ rows[1].readme_content = <<"N","o"," ","R","E","A","D","M","E"," ","f","o","u","n","d">>
    /\ rows[1].languages_used = <<"N","o","t"," ","s","p","e","c","i","f","i","e","d">>
    /\ rows[2].readme_content = <<"p","l","a","i","n"," ","t","e","x","t">>
    /\ rows[2].languages_used = <<"P","y","t","h","o","n">>
====
